---- MODULE Spec2Model ----
(***************************************************************************)
(* Model of next-fhi-cli (src/src/cli.ts).                                 *)
(*                                                                         *)
(*  Spec        the `init` command handler: one external generator, five   *)
(*              install batches, the template writers, and the best-effort *)
(*              shadcn / Husky / Prisma steps, over a small file system.   *)
(*  SpecNaming  the generated .husky/validate-naming.js run on a list of   *)
(*              staged paths; strings are sequences of one-character       *)
(*              strings so that split / endsWith / includes / the two      *)
(*              regular expressions are computed, not assumed.             *)
(***************************************************************************)
EXTENDS Integers, Sequences, FiniteSets, TLC

VARIABLES
    pc,            \* position of the init handler
    nameGiven,     \* was [project-name] given on the command line
    targetExisted, \* did cwd/<name> exist when init started
    targetExists,  \* does cwd/<name> exist now
    cwd,           \* "orig" or "target" (process.chdir)
    batch,         \* next install batch, 1..5
    fsys,          \* project directory: files, dirs, package.json, modes, I/O counters
    execs,         \* external commands invoked so far (execSync), in order
    failures,      \* external commands that exited non-zero, helpers that threw
    steps,         \* helper functions entered so far, in order
    out,           \* messages printed so far, in order
    exitStatus,    \* -1 while running, else the process exit status
    stagedFiles,   \* validate-naming.js: process.argv.slice(2)
    pos,           \* validate-naming.js: next index of the forEach
    hasError,      \* validate-naming.js: let hasError
    fileCalls,     \* validate-naming.js: validateFileName calls and results
    folderCalls,   \* validate-naming.js: validateFolderName calls and results
    vExit,         \* validate-naming.js: -1 while running, else exit status
    vOut           \* validate-naming.js: final message printed

initVars   == <<pc, nameGiven, targetExisted, targetExists, cwd, batch, fsys,
                execs, failures, steps, out, exitStatus>>
namingVars == <<stagedFiles, pos, hasError, fileCalls, folderCalls, vExit, vOut>>
vars       == <<pc, nameGiven, targetExisted, targetExists, cwd, batch, fsys,
                execs, failures, steps, out, exitStatus,
                stagedFiles, pos, hasError, fileCalls, folderCalls, vExit, vOut>>

----------------------------------------------------------------------------
(* The project directory.                                                  *)

Absent == "<absent>"

\* every path the tool writes with fs.writeFile / fs.writeJSON, package.json apart
ToolFiles ==
    { "src/components/forms/.gitkeep", "src/components/layouts/.gitkeep",
      "src/utils/check-db.ts",
      "vitest.config.ts", "playwright.config.ts", ".prettierrc",
      "__tests__/setup.ts", "src/store/user-store.ts", "src/lib/utils/cn.ts",
      "src/lib/validations/auth.ts", "src/app/api/auth/[...nextauth]/route.ts",
      "components.json",
      ".husky/pre-commit", ".husky/validate-naming.js",
      "prisma/schema.prisma", "src/lib/db.ts", ".env.example" }

\* files only external tools write
ExternalFiles == { ".env" }

AllFiles == ToolFiles \cup ExternalFiles

PkgJson == "package.json"

Root == "."

\* path.dirname of every path used
ParentOf(p) ==
    CASE p = "src/components/forms/.gitkeep"   -> "src/components/forms"
      [] p = "src/components/layouts/.gitkeep" -> "src/components/layouts"
      [] p = "src/utils/check-db.ts"           -> "src/utils"
      [] p = "__tests__/setup.ts"              -> "__tests__"
      [] p = "src/store/user-store.ts"         -> "src/store"
      [] p = "src/lib/utils/cn.ts"             -> "src/lib/utils"
      [] p = "src/lib/validations/auth.ts"     -> "src/lib/validations"
      [] p = "src/app/api/auth/[...nextauth]/route.ts"
                                               -> "src/app/api/auth/[...nextauth]"
      [] p = ".husky/pre-commit"               -> ".husky"
      [] p = ".husky/validate-naming.js"       -> ".husky"
      [] p = "prisma/schema.prisma"            -> "prisma"
      [] p = "src/lib/db.ts"                   -> "src/lib"
      [] p = "src/app/api/auth/[...nextauth]"  -> "src/app/api/auth"
      [] p = "src/app/api/auth"                -> "src/app/api"
      [] p = "src/app/api"                     -> "src/app"
      [] p \in { "src/app", "src/components", "src/lib", "src/store",
                 "src/types", "src/utils" }    -> "src"
      [] p \in { "src/components/ui", "src/components/forms",
                 "src/components/layouts" }    -> "src/components"
      [] p \in { "src/lib/actions", "src/lib/api", "src/lib/utils",
                 "src/lib/validations", "src/lib/hooks" } -> "src/lib"
      [] p \in { "public/images", "public/icons" } -> "public"
      [] p \in { "__tests__/unit", "__tests__/e2e" } -> "__tests__"
      [] OTHER                                 -> Root

RECURSIVE WithParents(_)
\* fs.ensureDir creates the directory and every missing ancestor
WithParents(d) ==
    IF d = Root THEN {Root} ELSE {d} \cup WithParents(ParentOf(d))

----------------------------------------------------------------------------
(* package.json as data: top-level members other than "scripts", and the   *)
(* members of "scripts".  The text also has an indentation, which          *)
(* fs.readJSON drops and fs.writeJSON(..., {spaces: 2}) sets.              *)

NoObject == [hasScripts |-> FALSE, top |-> <<>>, scripts |-> <<>>]
NoPkg    == [present |-> FALSE, indent |-> 0, obj |-> NoObject]

GenTopKeys    == { "name", "lint-staged" }
GenScriptKeys == { "dev", "build", "lint" }
GenIndents    == { 2, 4 }

\* what the generator may leave in package.json
GenPkgs ==
    { [present |-> TRUE, indent |-> i,
       obj |-> [hasScripts |-> hs,
                top     |-> [k \in T |-> "generated"],
                scripts |-> [k \in (IF hs THEN S ELSE {}) |-> "generated"]]] :
        i \in GenIndents, hs \in BOOLEAN,
        T \in SUBSET GenTopKeys, S \in SUBSET GenScriptKeys }

\* obj[k] = v
Put(f, k, v) == [x \in DOMAIN f \cup {k} |-> IF x = k THEN v ELSE f[x]]

\* { ...a, ...b }
Spread(a, b) ==
    [x \in DOMAIN a \cup DOMAIN b |-> IF x \in DOMAIN b THEN b[x] ELSE a[x]]

readJSON(file)  == file.obj
writeJSON(obj)  == [present |-> TRUE, indent |-> 2, obj |-> obj]

ConfigScriptKeys ==
    { "test", "checkdb", "dev", "test:ui", "test:e2e", "test:e2e:ui",
      "lint:fix", "format", "prepare" }

ConfigScripts ==
    [k \in ConfigScriptKeys |->
        CASE k = "test"        -> "vitest"
          [] k = "checkdb"     -> "ts-node src/utils/check-db.ts"
          [] k = "dev"         -> "pnpm run checkdb && next dev"
          [] k = "test:ui"     -> "vitest --ui"
          [] k = "test:e2e"    -> "playwright test"
          [] k = "test:e2e:ui" -> "playwright test --ui"
          [] k = "lint:fix"    -> "eslint . --fix"
          [] k = "format"      -> "prettier --write ."
          [] k = "prepare"     -> "husky"]

\* variant: the old scripts are not spread into the new object
UpdateScriptsNoSpread(obj) ==
    [obj EXCEPT !.hasScripts = TRUE, !.scripts = ConfigScripts]

\* pkg.scripts = { ...pkg.scripts, test: ..., ..., prepare: "husky" }
UpdateScripts(obj) ==
    [obj EXCEPT !.hasScripts = TRUE,
                !.scripts = Spread(obj.scripts, ConfigScripts)]

\* pkg["lint-staged"] = { ... }
SetLintStaged(obj) ==
    [obj EXCEPT !.top = Put(obj.top, "lint-staged", "eslint+prettier")]

PkgUpdate(kind, obj) ==
    IF kind = "scripts" THEN UpdateScripts(obj) ELSE SetLintStaged(obj)

----------------------------------------------------------------------------
(* File-system calls.  Each call either completes or throws; a call whose  *)
(* precondition is missing (no parent directory, no file) always throws.   *)

Op(o, p, a) == [op |-> o, path |-> p, arg |-> a]
EnsureDir(p)   == Op("ensureDir", p, "")
WriteFile(p, c) == Op("write", p, c)
Chmod(p)       == Op("chmod", p, "755")
ReadPkg        == Op("readJSON", PkgJson, "")
WritePkg(kind) == Op("writeJSON", PkgJson, kind)

NoFiles == [files    |-> [f \in AllFiles |-> Absent],
            dirs     |-> {},
            pkg      |-> NoPkg,
            execBits |-> {},
            writes   |-> [f \in ToolFiles \cup {PkgJson} |-> 0],
            readBack |-> {}]

MustFail(st, o) ==
    CASE o.op = "write"     -> ParentOf(o.path) \notin st.dirs
      [] o.op = "chmod"     -> st.files[o.path] = Absent
      [] o.op = "readJSON"  -> ~st.pkg.present
      [] o.op = "writeJSON" -> Root \notin st.dirs
      [] OTHER              -> FALSE

\* the call is issued: a write counts as a write of that path even if it throws
Attempt(st, o) ==
    CASE o.op \in {"write", "writeJSON"} ->
            [st EXCEPT !.writes[o.path] = @ + 1]
      [] o.op = "readJSON" ->
            [st EXCEPT !.readBack =
                 @ \cup (IF st.writes[o.path] > 0 THEN {o.path} ELSE {})]
      [] OTHER -> st

\* the call completes
Apply(st, o) ==
    LET s1 == Attempt(st, o) IN
    CASE o.op = "ensureDir" -> [s1 EXCEPT !.dirs = @ \cup WithParents(o.path)]
      [] o.op = "write"     -> [s1 EXCEPT !.files[o.path] = o.arg]
      [] o.op = "chmod"     -> [s1 EXCEPT !.execBits = @ \cup {o.path}]
      [] o.op = "writeJSON" ->
            [s1 EXCEPT !.pkg = writeJSON(PkgUpdate(o.arg, readJSON(st.pkg)))]
      [] OTHER              -> s1

RECURSIVE Run(_, _, _, _)
\* calls i.. of ops from st; call k throws (k = 0: none does)
Run(st, ops, i, k) ==
    IF i > Len(ops) THEN [st |-> st, feasible |-> TRUE, threw |-> FALSE]
    ELSE IF i = k THEN [st |-> Attempt(st, ops[i]), feasible |-> TRUE, threw |-> TRUE]
    ELSE IF MustFail(st, ops[i]) THEN [st |-> st, feasible |-> FALSE, threw |-> FALSE]
    ELSE Run(Apply(st, ops[i]), ops, i + 1, k)

\* the helper's name, if this outcome of it is an exception
ThrewIn(r, helper) == IF r.threw THEN {helper} ELSE {}

\* every way an async helper made of ops can end
Outcomes(st, ops) ==
    { r \in { Run(st, ops, 1, k) : k \in 0..Len(ops) } : r.feasible }

----------------------------------------------------------------------------
(* The helpers, as the file-system calls they make, in order.              *)

StructureFolders ==
    << "src/app/api/auth/[...nextauth]", "src/components/ui",
       "src/components/forms", "src/components/layouts", "src/lib/actions",
       "src/lib/api", "src/lib/utils", "src/lib/validations", "src/lib/hooks",
       "src/store", "src/types", "prisma", "public/images", "public/icons",
       "__tests__/unit", "__tests__/e2e" >>

\* variant: check-db.ts written a second time
StructureOpsTwice ==
    [i \in 1..Len(StructureFolders) |-> EnsureDir(StructureFolders[i])] \o
    << WriteFile("src/components/forms/.gitkeep", "empty"),
       WriteFile("src/components/layouts/.gitkeep", "empty"),
       EnsureDir("src/utils"),
       WriteFile("src/utils/check-db.ts", "check-db"),
       WriteFile("src/utils/check-db.ts", "check-db") >>

StructureOps ==
    [i \in 1..Len(StructureFolders) |-> EnsureDir(StructureFolders[i])] \o
    << WriteFile("src/components/forms/.gitkeep", "empty"),
       WriteFile("src/components/layouts/.gitkeep", "empty"),
       EnsureDir("src/utils"),
       WriteFile("src/utils/check-db.ts", "check-db") >>

\* variant: the NextAuth route is never written
ConfigOpsNoRoute ==
    << WriteFile("vitest.config.ts", "vitest-config"),
       WriteFile("playwright.config.ts", "playwright-config"),
       WriteFile(".prettierrc", "prettier-config"),
       WriteFile("__tests__/setup.ts", "test-setup"),
       EnsureDir("src/store"),
       WriteFile("src/store/user-store.ts", "zustand-store"),
       EnsureDir("src/lib/utils"),
       WriteFile("src/lib/utils/cn.ts", "cn-util"),
       EnsureDir("src/lib/validations"),
       WriteFile("src/lib/validations/auth.ts", "login-schema"),
       EnsureDir("src/app/api/auth/[...nextauth]"),
       ReadPkg,
       WritePkg("scripts") >>

ConfigOps ==
    << WriteFile("vitest.config.ts", "vitest-config"),
       WriteFile("playwright.config.ts", "playwright-config"),
       WriteFile(".prettierrc", "prettier-config"),
       WriteFile("__tests__/setup.ts", "test-setup"),
       EnsureDir("src/store"),
       WriteFile("src/store/user-store.ts", "zustand-store"),
       EnsureDir("src/lib/utils"),
       WriteFile("src/lib/utils/cn.ts", "cn-util"),
       EnsureDir("src/lib/validations"),
       WriteFile("src/lib/validations/auth.ts", "login-schema"),
       EnsureDir("src/app/api/auth/[...nextauth]"),
       WriteFile("src/app/api/auth/[...nextauth]/route.ts", "nextauth-route"),
       ReadPkg,
       WritePkg("scripts") >>

ShadcnOps == << WriteFile("components.json", "shadcn-config") >>

HuskyOps ==
    << WriteFile(".husky/pre-commit", "lint-staged"),
       Chmod(".husky/pre-commit"),
       ReadPkg,
       WritePkg("lint-staged"),
       WriteFile(".husky/validate-naming.js", "naming-validator"),
       WriteFile(".husky/pre-commit", "validate-naming+lint-staged") >>

PrismaOps ==
    << WriteFile("prisma/schema.prisma", "sqlserver-user-model"),
       WriteFile("src/lib/db.ts", "prisma-client"),
       WriteFile(".env.example", "env-example") >>

----------------------------------------------------------------------------
(* What the external commands leave behind when they succeed.              *)

\* pnpm create next-app: the project folder with its package.json
GeneratorEffect(st, genPkg) ==
    [st EXCEPT !.dirs = @ \cup {Root, "src", "src/app"}, !.pkg = genPkg]

InstallNames == << "add-auth", "add-form", "add-state", "add-database", "add-dev" >>

LastBatch == Len(InstallNames)

\* pnpm add [-D]: records the packages in package.json
InstallEffect(st, b) ==
    LET key == IF b = LastBatch THEN "devDependencies" ELSE "dependencies" IN
    [st EXCEPT !.pkg.obj.top = Put(@, key, "installed")]

\* pnpm dlx husky init: .husky/pre-commit and the prepare script
HuskyInitEffect(st) ==
    [st EXCEPT !.dirs = @ \cup {".husky"},
               !.files[".husky/pre-commit"] = "husky-default",
               !.pkg.obj.hasScripts = TRUE,
               !.pkg.obj.scripts = Put(@, "prepare", "husky")]

\* pnpm exec prisma init: prisma/schema.prisma and .env
PrismaInitEffect(st) ==
    [st EXCEPT !.dirs = @ \cup {"prisma"},
               !.files["prisma/schema.prisma"] = "prisma-init-schema",
               !.files[".env"] = "prisma-init-env"]

----------------------------------------------------------------------------
(* Where control goes: the next position, the exit status and what is      *)
(* printed on the way.                                                     *)

Goto(ctl) ==
    /\ pc' = ctl.pc
    /\ exitStatus' = ctl.exitStatus
    /\ out' = out \o ctl.msgs

Continue(p, msgs) == [pc |-> p, exitStatus |-> -1, msgs |-> msgs]

\* the handler's outer catch: message, tips, process.exit(1)
OuterCatch(msgs) == [pc |-> "exited", exitStatus |-> 1, msgs |-> msgs \o <<"error", "tips">>]

\* the handler returns after the success message; node exits 0
Success(msgs) ==
    [pc |-> "exited", exitStatus |-> 0, msgs |-> msgs \o <<"success", "next-steps">>]

\* variant: the existing folder is reported but the run goes on
TargetExistsIgnored == Continue("generator", <<"folder-exists", "start">>)

\* if (fs.existsSync(targetPath)) { log; process.exit(1) }
TargetExistsBranch == [pc |-> "exited", exitStatus |-> 1, msgs |-> <<"folder-exists">>]

GeneratorCatch == OuterCatch(<<"generator-failed">>)

\* variant: the install failure is reported but not rethrown
InstallCatchSwallowed == Continue("structure", <<"deps-failed">>)

\* catch { spinner.fail(...); throw error }
InstallCatch == OuterCatch(<<"deps-failed">>)

\* variant: setupShadcn lets the failure of shadcn add escape
ShadcnCatchRethrown == OuterCatch(<<>>)

\* setupShadcn's own catch: log, return; then spinner.succeed
ShadcnCatch == Continue("husky", <<"shadcn-manual", "shadcn-ok">>)

\* catch of the Husky step
HuskyCatch == Continue("prisma", <<"husky-warn">>)

\* variant: the catch only warns
PrismaCatchNothing == <<>>

\* catch of the Prisma step: warn, then await setupPrisma(targetPath)
PrismaCatchOps == PrismaOps

----------------------------------------------------------------------------
(* .husky/validate-naming.js, the script setupHusky writes.  A string is a *)
(* sequence of one-character strings.                                      *)

Lower == { "a", "b", "c", "d", "e", "f", "g", "h", "i", "j", "k", "l", "m",
           "n", "o", "p", "q", "r", "s", "t", "u", "v", "w", "x", "y", "z" }
Upper == { "A", "B", "C", "D", "E", "F", "G", "H", "I", "J", "K", "L", "M",
           "N", "O", "P", "Q", "R", "S", "T", "U", "V", "W", "X", "Y", "Z" }
Digit == { "0", "1", "2", "3", "4", "5", "6", "7", "8", "9" }

\* /^[a-z0-9-]+$/.test(s)
kebabCase(s) ==
    /\ Len(s) >= 1
    /\ \A i \in 1..Len(s) : s[i] \in Lower \cup Digit \cup {"-"}

\* /^[A-Z][a-zA-Z0-9]*$/.test(s)
pascalCase(s) ==
    /\ Len(s) >= 1
    /\ s[1] \in Upper
    /\ \A i \in 2..Len(s) : s[i] \in Lower \cup Upper \cup Digit

startsWith(s, pre) == Len(s) >= Len(pre) /\ SubSeq(s, 1, Len(pre)) = pre
endsWith(s, suf)   == Len(s) >= Len(suf) /\ SubSeq(s, Len(s) - Len(suf) + 1, Len(s)) = suf
includes(s, sub)   == \E i \in 1..(Len(s) - Len(sub) + 1) : SubSeq(s, i, i + Len(sub) - 1) = sub

RECURSIVE split(_, _)
\* s.split(sep) for a one-character sep
split(s, sep) ==
    IF \E i \in 1..Len(s) : s[i] = sep
       THEN LET i == CHOOSE i \in 1..Len(s) :
                        s[i] = sep /\ \A j \in 1..(i - 1) : s[j] # sep
            IN  <<SubSeq(s, 1, i - 1)>> \o split(SubSeq(s, i + 1, Len(s)), sep)
       ELSE <<s>>

RECURSIVE join(_, _)
\* parts.join(sep)
join(parts, sep) ==
    IF Len(parts) = 0 THEN <<>>
    ELSE IF Len(parts) = 1 THEN parts[1]
    ELSE parts[1] \o sep \o join(Tail(parts), sep)

Slash == <<"/">>
Dot   == <<".">>

\* path.sep (POSIX, where the hook's sh script runs)
PathSep == "/"

IsRealSegment(seg) == seg # <<>> /\ seg # Dot

\* path.relative(process.cwd(), file) for a path given relative to cwd:
\* resolve drops empty and "." segments, the result is joined again
relative(file) == join(SelectSeq(split(file, "/"), IsRealSegment), Slash)

specialFiles ==
    { <<"r", "o", "u", "t", "e">>,
      <<"l", "a", "y", "o", "u", "t">>,
      <<"p", "a", "g", "e">>,
      <<"l", "o", "a", "d", "i", "n", "g">>,
      <<"e", "r", "r", "o", "r">>,
      <<"n", "o", "t", "-", "f", "o", "u", "n", "d">>,
      <<"d", "e", "f", "a", "u", "l", "t">>,
      <<"t", "e", "m", "p", "l", "a", "t", "e">> }

specialFolders ==
    { <<"a", "p", "i">>,
      <<"u", "i">>,
      <<"a", "p", "p">>,
      <<"l", "i", "b">>,
      <<"c", "o", "m", "p", "o", "n", "e", "n", "t", "s">>,
      <<"u", "t", "i", "l", "s">>,
      <<"a", "c", "t", "i", "o", "n", "s">>,
      <<"h", "o", "o", "k", "s">>,
      <<"v", "a", "l", "i", "d", "a", "t", "i", "o", "n", "s">>,
      <<"s", "t", "o", "r", "e">>,
      <<"t", "y", "p", "e", "s">>,
      <<"f", "o", "r", "m", "s">>,
      <<"l", "a", "y", "o", "u", "t", "s">> }

\* filename.endsWith('.tsx') || filename.endsWith('.jsx')
isComponentFile(filename) ==
    \/ endsWith(filename, <<".", "t", "s", "x">>)
    \/ endsWith(filename, <<".", "j", "s", "x">>)

\* variant: the extension alone is cut off (the part after the last dot)
NameBeforeLastDot(filename) ==
    LET parts == split(filename, ".")
    IN  IF Len(parts) = 1 THEN filename
        ELSE join(SubSeq(parts, 1, Len(parts) - 1), Dot)

\* filename.split('.')[0]
nameWithoutExt(filename) == split(filename, ".")[1]

validateFileName(filename, isComponent) ==
    IF nameWithoutExt(filename) \in specialFiles THEN TRUE
    ELSE IF isComponent THEN pascalCase(nameWithoutExt(filename))
    ELSE kebabCase(nameWithoutExt(filename))

validateFolderName(folderName) ==
    IF \/ startsWith(folderName, <<"_">>)
       \/ startsWith(folderName, <<"[">>)
       \/ startsWith(folderName, <<"(">>)
       THEN TRUE
    ELSE IF folderName \in specialFolders THEN TRUE
    ELSE kebabCase(folderName)

\* the paths the forEach callback returns early on
SkipsPath(relativePath) ==
    \/ includes(relativePath, <<"n", "o", "d", "e", "_", "m", "o", "d", "u", "l", "e", "s">>)
    \/ includes(relativePath, <<".", "n", "e", "x", "t">>)
    \/ includes(relativePath, <<"d", "i", "s", "t">>)
    \/ includes(relativePath, <<".", "g", "i", "t">>)
    \/ ~startsWith(relativePath, <<"s", "r", "c", "/">>)

\* variant: the loop starts one component too late
FolderIndicesSkipFirst(parts) == [k \in 1..(Len(parts) - 3) |-> k + 2]

\* for (let i = 1; i < parts.length - 1; i++): the indices visited, in order,
\* counted from 1
FolderIndices(parts) == [k \in 1..(Len(parts) - 2) |-> k + 1]

\* git diff --cached --name-only prints each staged path, components joined by /
GitPath(segs) == join(segs, Slash)

\* one pass of stagedFiles.forEach
ProcessFile ==
    /\ vExit = -1
    /\ pos <= Len(stagedFiles)
    /\ LET file         == GitPath(stagedFiles[pos])
           relativePath == relative(file)
           parts        == split(relativePath, PathSep)
           filename     == parts[Len(parts)]
           isComponent  == isComponentFile(filename)
           fileOk       == validateFileName(filename, isComponent)
           idx          == FolderIndices(parts)
       IN  IF SkipsPath(relativePath)
              THEN UNCHANGED <<hasError, fileCalls, folderCalls>>
              ELSE /\ fileCalls' = Append(fileCalls,
                          [file |-> pos, filename |-> filename,
                           isComponent |-> isComponent, ok |-> fileOk])
                   /\ folderCalls' = folderCalls \o
                          [k \in 1..Len(idx) |->
                              [file |-> pos, folderName |-> parts[idx[k]],
                               ok |-> validateFolderName(parts[idx[k]])]]
                   /\ hasError' = ( \/ hasError
                                    \/ ~fileOk
                                    \/ \E k \in 1..Len(idx) :
                                          ~validateFolderName(parts[idx[k]]) )
    /\ pos' = pos + 1
    /\ UNCHANGED <<stagedFiles, vExit, vOut>>
    /\ UNCHANGED initVars

\* if (hasError) { ...; process.exit(1) }  console.log('valid')
FinishNaming ==
    /\ vExit = -1
    /\ pos > Len(stagedFiles)
    /\ vExit' = (IF hasError THEN 1 ELSE 0)
    /\ vOut' = (IF hasError THEN "aborted" ELSE "valid")
    /\ UNCHANGED <<stagedFiles, pos, hasError, fileCalls, folderCalls>>
    /\ UNCHANGED initVars

----------------------------------------------------------------------------
(* The init command handler.                                               *)

InitRun ==
    /\ pc = "start"
    /\ nameGiven \in BOOLEAN
    /\ targetExisted \in BOOLEAN
    /\ targetExists = targetExisted
    /\ cwd = "orig"
    /\ batch = 1
    /\ fsys = NoFiles
    /\ execs = <<>>
    /\ failures = {}
    /\ steps = <<>>
    /\ out = <<>>
    /\ exitStatus = -1

\* let name = projectName; if (!name) prompt
ResolveName ==
    /\ pc = "start"
    /\ Goto(Continue("check", IF nameGiven THEN <<>> ELSE <<"prompt">>))
    /\ UNCHANGED <<nameGiven, targetExisted, targetExists, cwd, batch, fsys,
                   execs, failures, steps>>
    /\ UNCHANGED namingVars

CheckTarget ==
    /\ pc = "check"
    /\ Goto(IF targetExists THEN TargetExistsBranch
                            ELSE Continue("generator", <<"start">>))
    /\ UNCHANGED <<nameGiven, targetExisted, targetExists, cwd, batch, fsys,
                   execs, failures, steps>>
    /\ UNCHANGED namingVars

CreateNextApp ==
    /\ pc = "generator"
    /\ execs' = Append(execs, "create-next-app")
    /\ \/ /\ failures' = failures \cup {"create-next-app"}
          /\ Goto(GeneratorCatch)
          /\ UNCHANGED <<targetExists, fsys>>
       \/ /\ \E genPkg \in GenPkgs :
                /\ fsys' = GeneratorEffect(fsys, genPkg)
                /\ targetExists' = TRUE
          /\ Goto(Continue("verify", <<"generator-ok">>))
          /\ UNCHANGED failures
       \/ /\ Goto(Continue("verify", <<"generator-ok">>))
          /\ UNCHANGED <<failures, targetExists, fsys>>
    /\ UNCHANGED <<nameGiven, targetExisted, cwd, batch, steps>>
    /\ UNCHANGED namingVars

\* if (!fs.existsSync(targetPath)) throw; process.chdir(targetPath)
VerifyAndChdir ==
    /\ pc = "verify"
    /\ IF targetExists
          THEN /\ cwd' = "target"
               /\ Goto(Continue("install", <<>>))
          ELSE /\ Goto(OuterCatch(<<>>))
               /\ UNCHANGED cwd
    /\ failures' = failures \cup (IF targetExists THEN {} ELSE {"verify-folder"})
    /\ UNCHANGED <<nameGiven, targetExisted, targetExists, batch, fsys,
                   execs, steps>>
    /\ UNCHANGED namingVars

InstallBatch ==
    /\ pc = "install"
    /\ execs' = Append(execs, InstallNames[batch])
    /\ \/ /\ failures' = failures \cup {InstallNames[batch]}
          /\ Goto(InstallCatch)
          /\ UNCHANGED <<fsys, batch>>
       \/ /\ fsys' = InstallEffect(fsys, batch)
          /\ IF batch < LastBatch
                THEN /\ batch' = batch + 1
                     /\ Goto(Continue("install", <<>>))
                ELSE /\ Goto(Continue("structure", <<"deps-ok", "deps-ok">>))
                     /\ UNCHANGED batch
          /\ UNCHANGED failures
    /\ UNCHANGED <<nameGiven, targetExisted, targetExists, cwd, steps>>
    /\ UNCHANGED namingVars

CreateProjectStructure ==
    /\ pc = "structure"
    /\ steps' = Append(steps, "createProjectStructure")
    /\ \E r \in Outcomes(fsys, StructureOps) :
          /\ fsys' = r.st
          /\ failures' = failures \cup ThrewIn(r, "createProjectStructure")
          /\ Goto(IF r.threw THEN OuterCatch(<<>>)
                             ELSE Continue("config", <<"structure-ok">>))
    /\ UNCHANGED <<nameGiven, targetExisted, targetExists, cwd, batch, execs>>
    /\ UNCHANGED namingVars

CreateConfigFiles ==
    /\ pc = "config"
    /\ steps' = Append(steps, "createConfigFiles")
    /\ \E r \in Outcomes(fsys, ConfigOps) :
          /\ fsys' = r.st
          /\ failures' = failures \cup ThrewIn(r, "createConfigFiles")
          /\ Goto(IF r.threw THEN OuterCatch(<<>>)
                             ELSE Continue("shadcn", <<"config-ok">>))
    /\ UNCHANGED <<nameGiven, targetExisted, targetExists, cwd, batch, execs>>
    /\ UNCHANGED namingVars

SetupShadcn ==
    /\ pc = "shadcn"
    /\ steps' = Append(steps, "setupShadcn")
    /\ \E r \in Outcomes(fsys, ShadcnOps) :
          /\ fsys' = r.st
          /\ IF r.threw
                THEN /\ Goto(OuterCatch(<<>>))
                     /\ failures' = failures \cup {"setupShadcn"}
                     /\ UNCHANGED execs
                ELSE /\ execs' = Append(execs, "shadcn-add")
                     /\ \/ /\ failures' = failures \cup {"shadcn-add"}
                           /\ Goto(ShadcnCatch)
                        \/ /\ Goto(Continue("husky", <<"shadcn-ok">>))
                           /\ UNCHANGED failures
    /\ UNCHANGED <<nameGiven, targetExisted, targetExists, cwd, batch>>
    /\ UNCHANGED namingVars

HuskyStep ==
    /\ pc = "husky"
    /\ execs' = Append(execs, "husky-init")
    /\ \/ /\ failures' = failures \cup {"husky-init"}
          /\ Goto(HuskyCatch)
          /\ UNCHANGED <<fsys, steps>>
       \/ /\ steps' = Append(steps, "setupHusky")
          /\ \E r \in Outcomes(HuskyInitEffect(fsys), HuskyOps) :
                /\ fsys' = r.st
                /\ failures' = failures \cup ThrewIn(r, "setupHusky")
                /\ Goto(IF r.threw THEN HuskyCatch
                                   ELSE Continue("prisma", <<"husky-ok">>))
    /\ UNCHANGED <<nameGiven, targetExisted, targetExists, cwd, batch>>
    /\ UNCHANGED namingVars

PrismaStep ==
    /\ pc = "prisma"
    /\ execs' = Append(execs, "prisma-init")
    /\ \/ /\ steps' = Append(steps, "setupPrisma")
          /\ \E r \in Outcomes(fsys, PrismaCatchOps) :
                /\ fsys' = r.st
                /\ failures' = failures \cup {"prisma-init"}
                                         \cup ThrewIn(r, "setupPrisma-in-catch")
                /\ Goto(IF r.threw THEN OuterCatch(<<"prisma-warn">>)
                                   ELSE Success(<<"prisma-warn">>))
       \/ /\ \E r1 \in Outcomes(PrismaInitEffect(fsys), PrismaOps) :
                IF ~r1.threw
                   THEN /\ steps' = Append(steps, "setupPrisma")
                        /\ fsys' = r1.st
                        /\ UNCHANGED failures
                        /\ Goto(Success(<<"prisma-ok">>))
                   ELSE /\ steps' = steps \o <<"setupPrisma", "setupPrisma">>
                        /\ \E r2 \in Outcomes(r1.st, PrismaCatchOps) :
                              /\ fsys' = r2.st
                              /\ failures' = failures \cup {"setupPrisma"}
                                              \cup ThrewIn(r2, "setupPrisma-in-catch")
                              /\ Goto(IF r2.threw THEN OuterCatch(<<"prisma-warn">>)
                                                  ELSE Success(<<"prisma-warn">>))
    /\ UNCHANGED <<nameGiven, targetExisted, targetExists, cwd, batch>>
    /\ UNCHANGED namingVars

NamingIdle ==
    /\ stagedFiles = <<>>
    /\ pos = 1
    /\ hasError = FALSE
    /\ fileCalls = <<>>
    /\ folderCalls = <<>>
    /\ vExit = -1
    /\ vOut = "none"

Init == InitRun /\ NamingIdle

Next ==
    \/ ResolveName
    \/ CheckTarget
    \/ CreateNextApp
    \/ VerifyAndChdir
    \/ InstallBatch
    \/ CreateProjectStructure
    \/ CreateConfigFiles
    \/ SetupShadcn
    \/ HuskyStep
    \/ PrismaStep

Spec == Init /\ [][Next]_vars

----------------------------------------------------------------------------
(* Staged paths the validator is run on.                                   *)

MaxStaged == 2
MaxName   == 2

Src == <<"s", "r", "c">>

Alphabet == { "a", "B", "-", "1", "_" }

RECURSIVE StringsUpTo(_)
StringsUpTo(n) ==
    IF n = 0 THEN { <<>> }
    ELSE LET S == StringsUpTo(n - 1)
         IN  S \cup { Append(x, c) : x \in S, c \in Alphabet }

Extensions == { <<>>, <<".", "t", "s">>, <<".", "t", "s", "x">>, <<".", "j", "s", "x">>, <<".", "t", "e", "s", "t", ".", "t", "s", "x">> }

GenBases == StringsUpTo(MaxName) \cup { <<"p", "a", "g", "e">>, <<"n", "o", "t", "-", "f", "o", "u", "n", "d">> }

GenFileNames == { b \o e : b \in GenBases, e \in Extensions } \ { <<>> }

GenFolderNames ==
    (StringsUpTo(MaxName) \ { <<>> }) \cup { <<"u", "i">>, <<"h", "o", "o", "k", "s">>, <<"(", "a", ")">>, <<"[", "a", "]">> }

\* one staged path: every generated file name directly under src/, and every
\* generated folder name between src/ and a well-named component
GenPaths ==
    { <<Src, f>> : f \in GenFileNames } \cup
    { <<Src, d, <<"A", "b", ".", "t", "s", "x">>>> : d \in GenFolderNames }

HandFolders ==
    { <<>>, << <<"a", "-", "b">> >>, << <<"A", "b">> >>, << <<"u", "i">>, <<"a", "B">> >>, << <<"_", "A">>, <<"a", "-", "b">>, <<"[", "a", "]">> >> }

HandFiles == { <<"A", "b", ".", "t", "s", "x">>, <<"a", "b", ".", "t", "s", "x">>, <<"p", "a", "g", "e", ".", "t", "s", "x">>, <<"a", "B", ".", "t", "s">>, <<"d", "i", "s", "t", "A", ".", "t", "s">> }

\* staged paths for lists of several files: under src/ at several depths,
\* one outside src/, one written with a leading ./
HandPaths ==
    { <<Src>> \o d \o <<f>> : d \in HandFolders, f \in HandFiles } \cup
    { << <<"l", "i", "b">>, <<"a", "B", ".", "t", "s">> >>, << Dot, Src, <<"a", "b", ".", "t", "s", "x">> >> }

RECURSIVE ListsUpTo(_, _)
ListsUpTo(S, n) ==
    IF n = 0 THEN { <<>> }
    ELSE LET L == ListsUpTo(S, n - 1)
         IN  L \cup { Append(l, x) : l \in { m \in L : Len(m) = n - 1 }, x \in S }

InitNaming ==
    /\ stagedFiles \in ListsUpTo(HandPaths, MaxStaged) \cup { <<p>> : p \in GenPaths }
    /\ pos = 1
    /\ hasError = FALSE
    /\ fileCalls = <<>>
    /\ folderCalls = <<>>
    /\ vExit = -1
    /\ vOut = "none"

\* the init handler is not running while the hook runs
InitIdle ==
    /\ pc = "exited"
    /\ nameGiven = TRUE
    /\ targetExisted = FALSE
    /\ targetExists = TRUE
    /\ cwd = "target"
    /\ batch = LastBatch
    /\ fsys = NoFiles
    /\ execs = <<>>
    /\ failures = {}
    /\ steps = <<>>
    /\ out = <<>>
    /\ exitStatus = 0

NamingInit == InitNaming /\ InitIdle

NextNaming ==
    \/ ProcessFile
    \/ FinishNaming

SpecNaming == NamingInit /\ [][NextNaming]_vars

----------------------------------------------------------------------------
(* Properties of the init run.                                             *)

Printed(m)  == \E i \in 1..Len(out) : out[i] = m
Present(f)  == fsys.files[f] # Absent

HardCommands == { "create-next-app" } \cup { InstallNames[i] : i \in 1..LastBatch }
BestEffort   == { "shadcn-add", "husky-init", "setupHusky", "prisma-init" }

\* C1: when the generator or one of the five install batches fails, the run
\* prints the error message and exits with a non-zero status; the failed
\* command is the last one invoked, no helper (createProjectStructure,
\* createConfigFiles, setupShadcn, setupHusky, setupPrisma) is entered and
\* the success message is not printed.
C1_HardFailureStops ==
    \A c \in HardCommands :
        c \in failures =>
            /\ pc = "exited"
            /\ exitStatus > 0
            /\ Printed("error")
            /\ ~Printed("success")
            /\ execs[Len(execs)] = c
            /\ steps = <<>>
            /\ fsys.writes = NoFiles.writes

C1_Witness ==
    /\ "add-state" \in failures
    /\ execs = <<"create-next-app", "add-auth", "add-form", "add-state">>
    /\ pc = "exited"

\* C2: when nothing but 'shadcn add', 'husky init', setupHusky or
\* 'prisma init' failed, the finished run has invoked shadcn, Husky and
\* Prisma in that order after the installs, entered the helpers in order,
\* printed the success message and exited with status 0.
C2_BestEffortOnlyWarns ==
    (pc = "exited" /\ ~targetExisted /\ failures \subseteq BestEffort) =>
        /\ exitStatus = 0
        /\ Printed("success")
        /\ ~Printed("error")
        /\ execs = <<"create-next-app">> \o InstallNames
                     \o <<"shadcn-add", "husky-init", "prisma-init">>
        /\ steps = <<"createProjectStructure", "createConfigFiles", "setupShadcn">>
                     \o (IF "husky-init" \in failures THEN <<>> ELSE <<"setupHusky">>)
                     \o <<"setupPrisma">>

C2_Witness ==
    /\ pc = "exited"
    /\ failures = { "shadcn-add", "husky-init", "prisma-init" }
    /\ Printed("shadcn-manual") /\ Printed("husky-warn") /\ Printed("prisma-warn")
    /\ Printed("success")

\* C3: when the target already existed at the start, the run either has not
\* reached the check yet or has exited with status 1 having invoked no
\* external command, not changed directory and touched no file.
C3_ExistingTargetUntouched ==
    targetExisted =>
        \/ pc \in { "start", "check" } /\ exitStatus = -1 /\ execs = <<>>
                                       /\ cwd = "orig" /\ fsys = NoFiles
        \/ /\ pc = "exited"
           /\ exitStatus = 1
           /\ execs = <<>>
           /\ steps = <<>>
           /\ cwd = "orig"
           /\ fsys = NoFiles

C3_Witness == targetExisted /\ pc = "exited" /\ Printed("folder-exists")

DocumentedFiles ==
    { "src/app/api/auth/[...nextauth]/route.ts", "src/lib/db.ts",
      "src/store/user-store.ts", "prisma/schema.prisma", "__tests__/setup.ts",
      "components.json", "vitest.config.ts", "playwright.config.ts",
      ".prettierrc", ".husky/pre-commit", ".husky/validate-naming.js" }

HuskyFiles == { ".husky/pre-commit", ".husky/validate-naming.js" }

\* C4 as stated: after the success message every documented tool-written
\* file exists, the two git-hook files included.
C4_Original ==
    Printed("success") => \A f \in DocumentedFiles : Present(f)

\* C4 amended: after the success message every documented tool-written file
\* other than the two git-hook files exists, and the two git-hook files
\* exist, with the tool's content, when the Husky step reported success.
C4_FilesOnSuccess ==
    Printed("success") =>
        /\ \A f \in DocumentedFiles \ HuskyFiles : Present(f)
        /\ Printed("husky-ok") =>
              /\ fsys.files[".husky/pre-commit"] = "validate-naming+lint-staged"
              /\ fsys.files[".husky/validate-naming.js"] = "naming-validator"

C4_Witness ==
    /\ Printed("success")
    /\ Printed("husky-ok")
    /\ \A f \in DocumentedFiles : Present(f)

\* C8: after the success message setupPrisma has completed, whether or not
\* 'prisma init' succeeded: the sqlserver schema, src/lib/db.ts and
\* .env.example hold the tool's templates.
C8_PrismaFilesOnSuccess ==
    Printed("success") =>
        /\ steps[Len(steps)] = "setupPrisma"
        /\ fsys.files["prisma/schema.prisma"] = "sqlserver-user-model"
        /\ fsys.files["src/lib/db.ts"] = "prisma-client"
        /\ fsys.files[".env.example"] = "env-example"

C8_Witness ==
    /\ Printed("success")
    /\ "prisma-init" \in failures
    /\ fsys.files[".env.example"] = "env-example"

\* C9 as stated: no path is written more than once and no written file is
\* read back.
C9_Original ==
    /\ \A p \in DOMAIN fsys.writes : fsys.writes[p] <= 1
    /\ fsys.readBack = {}

WrittenTwice ==
    { PkgJson, ".husky/pre-commit",
      "prisma/schema.prisma", "src/lib/db.ts", ".env.example" }

\* C9 amended: every path is written at most once, except package.json,
\* .husky/pre-commit and the three setupPrisma files, which are written at
\* most twice; package.json is the only file read back after being written.
C9_WriteCounts ==
    /\ \A p \in DOMAIN fsys.writes :
          fsys.writes[p] <= (IF p \in WrittenTwice THEN 2 ELSE 1)
    /\ fsys.readBack \subseteq { PkgJson }

C9_Witness ==
    /\ fsys.writes[PkgJson] = 2
    /\ fsys.writes[".husky/pre-commit"] = 2
    /\ fsys.writes[".env.example"] = 2
    /\ fsys.readBack = { PkgJson }
    /\ Printed("success")

KeptIn(a, b, owned) ==
    \A k \in DOMAIN a \ owned : k \in DOMAIN b /\ b[k] = a[k]

\* C10: the createConfigFiles step leaves every top-level member of
\* package.json other than "scripts" as it was and keeps every script it
\* does not set; the Husky step leaves "scripts" as createConfigFiles wrote
\* it and changes no top-level member other than "lint-staged".
C10_PackageJsonFrame ==
    [][ LET a == readJSON(fsys.pkg)
            b == readJSON(fsys'.pkg)
        IN  /\ pc = "config" =>
                 /\ b.top = a.top
                 /\ KeptIn(a.scripts, b.scripts, ConfigScriptKeys)
            /\ pc = "husky" =>
                 /\ b.scripts = a.scripts
                 /\ KeptIn(a.top, b.top, {"lint-staged"})
                 /\ DOMAIN b.top \subseteq DOMAIN a.top \cup {"lint-staged"}
      ]_vars

C10_Witness ==
    /\ fsys.writes[PkgJson] = 2
    /\ fsys.pkg.indent = 2
    /\ DOMAIN fsys.pkg.obj.scripts = ConfigScriptKeys \cup { "build", "lint" }
    /\ fsys.pkg.obj.scripts["build"] = "generated"
    /\ fsys.pkg.obj.scripts["dev"] = "pnpm run checkdb && next dev"
    /\ DOMAIN fsys.pkg.obj.top = { "name", "dependencies", "devDependencies", "lint-staged" }
    /\ fsys.pkg.obj.top["lint-staged"] = "eslint+prettier"
    /\ fsys.pkg.obj.top["name"] = "generated"

----------------------------------------------------------------------------
(* Properties of the naming validator, stated on the staged paths          *)
(* themselves (their components), apart from the script's own string work. *)

FirstDot(name) ==
    LET dots == { i \in 1..Len(name) : name[i] = "." }
    IN  IF dots = {} THEN Len(name) + 1
        ELSE CHOOSE i \in dots : \A j \in dots : i <= j

\* the part of a file name before its first dot
BaseOf(name) == SubSeq(name, 1, FirstDot(name) - 1)

HasComponentExtension(name) ==
    /\ Len(name) >= 4
    /\ name[Len(name) - 3] = "."
    /\ name[Len(name) - 2] \in { "t", "j" }
    /\ name[Len(name) - 1] = "s"
    /\ name[Len(name)] = "x"

IsKebab(x)  == x # <<>> /\ { x[i] : i \in 1..Len(x) } \subseteq Lower \cup Digit \cup {"-"}
IsPascal(x) == /\ x # <<>>
               /\ x[1] \in Upper
               /\ { x[i] : i \in 1..Len(x) } \subseteq Lower \cup Upper \cup Digit

FileRule(name) ==
    \/ BaseOf(name) \in specialFiles
    \/ HasComponentExtension(name) /\ IsPascal(BaseOf(name))
    \/ ~HasComponentExtension(name) /\ IsKebab(BaseOf(name))

FolderRule(d) ==
    \/ IsKebab(d)
    \/ d # <<>> /\ d[1] \in { "_", "[", "(" }
    \/ d \in specialFolders

FoldersOf(segs) == SubSeq(segs, 2, Len(segs) - 1)

UnderSrc(segs) == Len(segs) >= 2 /\ segs[1] = Src

Violates(segs) ==
    \/ ~FileRule(segs[Len(segs)])
    \/ \E k \in 1..Len(FoldersOf(segs)) : ~FolderRule(FoldersOf(segs)[k])

Validated(j) == \E i \in 1..Len(fileCalls) : fileCalls[i].file = j

IsCallOf(j, c) == c.file = j

\* C5: once the validator has exited, a staged path under src/ that breaks a
\* naming rule means exit status 1; status 0 comes with the 'valid' message
\* and only without such a path.
C5_AbortsOnAnyViolation ==
    vExit # -1 =>
        /\ (\E j \in 1..Len(stagedFiles) :
               UnderSrc(stagedFiles[j]) /\ Violates(stagedFiles[j])) => vExit = 1
        /\ vExit = 0 => vOut = "valid"

\* C6: every validateFileName call is made on the last component of its
\* staged path and returns pass exactly when the base (before the first dot)
\* is a special name, or the name ends in .tsx/.jsx and the base is
\* PascalCase, or it does not and the base is kebab-case.
C6_FileNameRule ==
    \A i \in 1..Len(fileCalls) :
        LET c    == fileCalls[i]
            segs == stagedFiles[c.file]
        IN  /\ c.filename = segs[Len(segs)]
            /\ c.ok = FileRule(c.filename)

C6_Witness ==
    /\ vExit = 0
    /\ Len(fileCalls) = 1
    /\ fileCalls[1].filename = <<"B", "a", ".", "t", "e", "s", "t", ".", "t", "s", "x">>
    /\ fileCalls[1].ok

\* C7: for every validated staged path src/d1/.../dk/file the folder checks
\* are made on d1..dk, in order and on nothing else, each passes exactly when
\* the segment is kebab-case, starts with _ [ or (, or is a special folder,
\* and a failing segment sets the error flag, so the exit status is 1.
C7_FolderRule ==
    \A j \in 1..Len(stagedFiles) :
        LET segs  == stagedFiles[j]
            calls == SelectSeq(folderCalls, LAMBDA c : IsCallOf(j, c))
        IN  (Validated(j) /\ UnderSrc(segs)) =>
                /\ Len(calls) = Len(FoldersOf(segs))
                /\ \A k \in 1..Len(calls) :
                      /\ calls[k].folderName = FoldersOf(segs)[k]
                      /\ calls[k].ok = FolderRule(FoldersOf(segs)[k])
                /\ (\E k \in 1..Len(FoldersOf(segs)) : ~FolderRule(FoldersOf(segs)[k]))
                      => (hasError /\ vExit \in { -1, 1 })

C7_Witness ==
    /\ vExit = 1
    /\ \A i \in 1..Len(fileCalls) : fileCalls[i].ok
    /\ Len(folderCalls) = 5
    /\ \E k \in 1..Len(folderCalls) : ~folderCalls[k].ok
    /\ \E k \in 1..Len(folderCalls) :
          folderCalls[k].ok /\ folderCalls[k].folderName = <<"[", "a", "]">>

====
